---------------------------- MODULE Spec2Model ----------------------------
(***************************************************************************)
(* A model of wyag (write-you-a-git, Rust): the object store, the KVLM and *)
(* tree codecs, checkout and log.                                          *)
(*                                                                         *)
(* Bytes are the integers 0..255; a Vec<u8>, a String and a &str are       *)
(* sequences of bytes (a String is one that is valid UTF-8).  Rust indices *)
(* are 0-based: index i of the code is element i+1 of the sequence.  A     *)
(* path is a sequence of segments, each a sequence of bytes.               *)
(***************************************************************************)
EXTENDS Integers, Sequences, FiniteSets, TLC

VARIABLES
    files,   \* the filesystem's regular files: path -> bytes
    dirs,    \* the filesystem's directories: a set of paths
    op,      \* the operation that ran last, with its arguments
    ret,     \* what that operation returned (Ok / Err / Panic)
    hist     \* object content -> identifier returned by its first written persist

vars == <<files, dirs, op, ret, hist>>

----------------------------------------------------------------------------
(* Byte constants of the source.                                           *)

SP == 32
NL == 10
NUL == 0
DigestLen == 20

BLOB == <<98, 108, 111, 98>>                  \* "blob"
COMMIT == <<99, 111, 109, 109, 105, 116>>     \* "commit"
TREE == <<116, 114, 101, 101>>                \* "tree"
OBJECTS == <<111, 98, 106, 101, 99, 116, 115>> \* "objects"
PARENT == <<112, 97, 114, 101, 110, 116>>     \* "parent"
EMPTY == <<>>                                 \* "" (String::from(""))

----------------------------------------------------------------------------
(* Slices, searches and the std conversions the code calls.                *)

\* raw[a..b] of Rust; the caller checks a <= b <= len (else Rust panics).
Slice(s, a, b) == SubSeq(s, a + 1, b)

\* Whether raw[a..b] panics.
SliceOk(s, a, b) == a <= b /\ b <= Len(s)

\* iter().skip(from).position(|b| b == &byte): the offset, relative to from, of
\* the first byte equal to `byte` at index >= from; -1 for None.
Position(s, from, byte) ==
    LET hits == {i \in from .. (Len(s) - 1) : s[i + 1] = byte}
    IN IF hits = {} THEN -1
       ELSE (CHOOSE i \in hits : \A j \in hits : i <= j) - from

\* Length of the UTF-8 sequence that starts at element i, 0 when there is none.
Utf8Step(s, i) ==
    LET n == Len(s)
        b0 == s[i]
        Cont(j, lo, hi) == j <= n /\ s[j] >= lo /\ s[j] <= hi
    IN IF b0 < 128 THEN 1
       ELSE IF b0 >= 194 /\ b0 <= 223 /\ Cont(i + 1, 128, 191) THEN 2
       ELSE IF b0 = 224 /\ Cont(i + 1, 160, 191) /\ Cont(i + 2, 128, 191) THEN 3
       ELSE IF ((b0 >= 225 /\ b0 <= 236) \/ b0 = 238 \/ b0 = 239)
               /\ Cont(i + 1, 128, 191) /\ Cont(i + 2, 128, 191) THEN 3
       ELSE IF b0 = 237 /\ Cont(i + 1, 128, 159) /\ Cont(i + 2, 128, 191) THEN 3
       ELSE IF b0 = 240 /\ Cont(i + 1, 144, 191) /\ Cont(i + 2, 128, 191)
               /\ Cont(i + 3, 128, 191) THEN 4
       ELSE IF b0 >= 241 /\ b0 <= 243 /\ Cont(i + 1, 128, 191)
               /\ Cont(i + 2, 128, 191) /\ Cont(i + 3, 128, 191) THEN 4
       ELSE IF b0 = 244 /\ Cont(i + 1, 128, 143) /\ Cont(i + 2, 128, 191)
               /\ Cont(i + 3, 128, 191) THEN 4
       ELSE 0

RECURSIVE Utf8From(_, _)
Utf8From(s, i) ==
    IF i > Len(s) THEN TRUE
    ELSE LET k == Utf8Step(s, i)
         IN IF k = 0 THEN FALSE ELSE Utf8From(s, i + k)

\* String::from_utf8(v).is_ok()
IsUtf8(s) == Utf8From(s, 1)

\* usize::to_string: the decimal digits of n.
RECURSIVE UsizeToString(_)
UsizeToString(n) ==
    IF n < 10 THEN <<48 + n>> ELSE UsizeToString(n \div 10) \o <<48 + (n % 10)>>

\* A plausible slip: uppercase hex digits.
HexDigitUpper(n) == IF n < 10 THEN 48 + n ELSE 55 + n

\* One lowercase hex digit.
HexDigit(n) == IF n < 10 THEN 48 + n ELSE 87 + n

\* hex::encode: two lowercase hex digits per byte.
HexEncode(b) ==
    [i \in 1 .. 2 * Len(b) |->
        IF i % 2 = 1 THEN HexDigit(b[(i + 1) \div 2] \div 16)
        ELSE HexDigit(b[i \div 2] % 16)]

\* str::replace(from, to) with a two-byte pattern: leftmost, non-overlapping.
RECURSIVE Replace2(_, _, _, _, _)
Replace2(s, i, p1, p2, to) ==
    IF i > Len(s) THEN <<>>
    ELSE IF i < Len(s) /\ s[i] = p1 /\ s[i + 1] = p2
         THEN to \o Replace2(s, i + 2, p1, p2, to)
         ELSE <<s[i]>> \o Replace2(s, i + 1, p1, p2, to)

\* str::replace(from, to) with a one-byte pattern.
RECURSIVE Replace1(_, _, _, _)
Replace1(s, i, p, to) ==
    IF i > Len(s) THEN <<>>
    ELSE (IF s[i] = p THEN to ELSE <<s[i]>>) \o Replace1(s, i + 1, p, to)

----------------------------------------------------------------------------
(* Results: Result::Ok, Result::Err and a panic (the process aborts).      *)

Ok(v) == [tag |-> "Ok", val |-> v]
Err(e) == [tag |-> "Err", val |-> e]
Panic(why) == [tag |-> "Panic", val |-> why]

----------------------------------------------------------------------------
(* KVLM codec: git_object.rs, GitObjectData::kvlm_parse / kvlm_serialize.  *)
(* A BTreeMap<String, Vec<String>> is a function from its keys to value    *)
(* sequences.                                                              *)

EmptyDict == [k \in {} |-> <<>>]

\* dict.insert(key, vec![value]) of the message entry: replaces the entry.
DictInsert(dict, key, value) ==
    [k \in DOMAIN dict \cup {key} |-> IF k = key THEN <<value>> ELSE dict[k]]

\* A plausible slip: a repeated key overwrites the earlier values.
DictAppendOverwrites(dict, key, value) ==
    [k \in DOMAIN dict \cup {key} |-> IF k = key THEN <<value>> ELSE dict[k]]

\* dict.entry(key).and_modify(|v| v.extend_from_slice(..)).or_insert(vec![..])
DictAppend(dict, key, value) ==
    [k \in DOMAIN dict \cup {key} |->
        IF k # key THEN dict[k]
        ELSE IF key \in DOMAIN dict THEN Append(dict[key], value)
        ELSE <<value>>]

\* A plausible slip: the continuation lines keep their leading space.
UnindentKeepsSpace(s) == s

\* .replace("\n ", "\n"): drop the leading space of continuation lines.
Unindent(s) == Replace2(s, 1, NL, SP, <<NL>>)

\* v.replace("\n", "\n "): re-indent the continuation lines.
Indent(s) == Replace1(s, 1, NL, <<NL, SP>>)

\* The loop of kvlm_parse: from `end`, the index of the first "\n" at an index
\* > end that is not followed by a space.  -1: position() is None and the
\* unwrap panics; -2: data_vec[end + 1] is out of bounds and panics.
RECURSIVE ValueEnd(_, _)
ValueEnd(data, end) ==
    LET p == Position(data, end + 1, NL)
        e == p + end + 1
    IN IF p = -1 THEN -1
       ELSE IF e + 1 >= Len(data) THEN -2
       ELSE IF data[e + 2] # SP THEN e
       ELSE ValueEnd(data, e)

RECURSIVE kvlm_parse(_, _, _)
kvlm_parse(data, start, dict) ==
    LET _spc == Position(data, start, SP)
        spc == (IF _spc = -1 THEN start ELSE _spc) + start
        _nl == Position(data, start, NL)
        nl == (IF _nl = -1 THEN start ELSE _nl) + start
        parsing_message == nl < spc
    IN IF parsing_message
       THEN IF nl # start THEN Panic("assert nl == start")
            ELSE IF ~SliceOk(data, start + 1, Len(data)) THEN Panic("slice")
            ELSE LET msg == Slice(data, start + 1, Len(data))
                 IN IF ~IsUtf8(msg) THEN Err("FromUtf8Error")
                    ELSE Ok(DictInsert(dict, EMPTY, msg))
       ELSE IF ~SliceOk(data, start, spc) THEN Panic("slice")
       ELSE LET key == Slice(data, start, spc)
            IN IF ~IsUtf8(key) THEN Err("FromUtf8Error")
               ELSE LET end == ValueEnd(data, start)
                    IN IF end = -1 THEN Panic("unwrap on None")
                       ELSE IF end = -2 THEN Panic("index out of bounds")
                       ELSE IF ~SliceOk(data, spc + 1, end) THEN Panic("slice")
                       ELSE LET raw == Slice(data, spc + 1, end)
                            IN IF ~IsUtf8(raw) THEN Err("FromUtf8Error")
                               ELSE kvlm_parse(data, end + 1,
                                               DictAppend(dict, key, Unindent(raw)))

\* The lines of one key: "key SP indent(v) NL" per value, in order.
RECURSIVE KeyLines(_, _, _)
KeyLines(key, vals, i) ==
    IF i > Len(vals) THEN <<>>
    ELSE key \o <<SP>> \o Indent(vals[i]) \o <<NL>> \o KeyLines(key, vals, i + 1)

\* Byte-wise order of two strings (the order of BTreeMap<String, _>::keys()).
RECURSIVE StrLess(_, _, _)
StrLess(a, b, i) ==
    IF i > Len(a) THEN i <= Len(b)
    ELSE IF i > Len(b) THEN FALSE
    ELSE IF a[i] # b[i] THEN a[i] < b[i]
    ELSE StrLess(a, b, i + 1)

\* The header lines of the keys in `keys`, smallest key first.
RECURSIVE HeaderLines(_, _)
HeaderLines(kvlm, keys) ==
    IF keys = {} THEN <<>>
    ELSE LET k == CHOOSE x \in keys : \A y \in keys \ {x} : StrLess(x, y, 1)
         IN KeyLines(k, kvlm[k], 1) \o HeaderLines(kvlm, keys \ {k})

\* kvlm_serialize: the payload, or a panic when the message entry is missing
\* (kvlm.get("").unwrap()) or empty ([0]).
kvlm_serialize(kvlm) ==
    IF EMPTY \notin DOMAIN kvlm THEN Panic("unwrap on None")
    ELSE IF Len(kvlm[EMPTY]) = 0 THEN Panic("index out of bounds")
    ELSE Ok(HeaderLines(kvlm, DOMAIN kvlm \ {EMPTY}) \o <<NL>> \o kvlm[EMPTY][1])

----------------------------------------------------------------------------
(* Inputs of the KVLM codec.                                               *)

MaxKvlmLen == 6      \* longest arbitrary payload
MaxHeaders == 2      \* most header lines of a built payload
MaxLines == 2        \* most physical lines of one header value

SeqsUpTo(S, n) == UNION {[1 .. k -> S] : k \in 0 .. n}

NoResult == [tag |-> "None", val |-> <<>>]
NoFiles == [p \in {} |-> <<>>]
NoHist == [o \in {} |-> <<>>]

\* Arbitrary payloads: space, newline, a letter and a byte no UTF-8 text holds.
KvlmBytes == {SP, NL, 97, 255}
RawPayloads == SeqsUpTo(KvlmBytes, MaxKvlmLen)

\* Built payloads: header lines (keys "p", "t"; a value is 1..MaxLines lines,
\* the lines "" and " x"), then the blank line, then the message.
HeaderKeys == {<<112>>, <<116>>}
LineTexts == {<<>>, <<SP, 120>>}
HeaderValues == SeqsUpTo(LineTexts, MaxLines) \ {<<>>}
Headers == [key : HeaderKeys, lines : HeaderValues]
Messages == {<<>>, <<109>>, <<109, SP, 110, NL, NL, SP>>}

\* The physical lines of a value: the continuation lines start with one space.
RECURSIVE PhysicalValue(_, _)
PhysicalValue(lines, i) ==
    IF i > Len(lines) THEN <<>>
    ELSE (IF i = 1 THEN <<>> ELSE <<NL, SP>>) \o lines[i] \o PhysicalValue(lines, i + 1)

\* The value the lines stand for: the lines joined by newlines.
RECURSIVE LogicalValue(_, _)
LogicalValue(lines, i) ==
    IF i > Len(lines) THEN <<>>
    ELSE (IF i = 1 THEN <<>> ELSE <<NL>>) \o lines[i] \o LogicalValue(lines, i + 1)

RECURSIVE PhysicalHeaders(_, _)
PhysicalHeaders(headers, i) ==
    IF i > Len(headers) THEN <<>>
    ELSE headers[i].key \o <<SP>> \o PhysicalValue(headers[i].lines, 1) \o <<NL>>
         \o PhysicalHeaders(headers, i + 1)

BuildPayload(headers, msg) == PhysicalHeaders(headers, 1) \o <<NL>> \o msg

KvlmInit ==
    /\ files = NoFiles
    /\ dirs = {}
    /\ hist = NoHist
    /\ ret = NoResult
    /\ \/ \E data \in RawPayloads :
            op = [name |-> "kvlm_input", data |-> data, built |-> FALSE,
                  headers |-> <<>>, msg |-> <<>>, parsed_src |-> NoResult]
       \/ \E headers \in SeqsUpTo(Headers, MaxHeaders), msg \in Messages :
            op = [name |-> "kvlm_input", data |-> BuildPayload(headers, msg),
                  built |-> TRUE, headers |-> headers, msg |-> msg,
                  parsed_src |-> NoResult]

\* commit_object.kvlm_parse(None, None)
KvlmParse ==
    /\ op.name = "kvlm_input"
    /\ op' = [op EXCEPT !.name = "kvlm_parse"]
    /\ ret' = kvlm_parse(op.data, 0, EmptyDict)
    /\ UNCHANGED <<files, dirs, hist>>

\* GitObjectData::kvlm_serialize(&parsed_src)
KvlmSerialize ==
    /\ op.name = "kvlm_parse"
    /\ ret.tag = "Ok"
    /\ op' = [op EXCEPT !.name = "kvlm_serialize", !.parsed_src = ret]
    /\ ret' = kvlm_serialize(ret.val)
    /\ UNCHANGED <<files, dirs, hist>>

\* serialized.kvlm_parse(None, None)
KvlmReparse ==
    /\ op.name = "kvlm_serialize"
    /\ ret.tag = "Ok"
    /\ op' = [op EXCEPT !.name = "kvlm_reparse"]
    /\ ret' = kvlm_parse(ret.val, 0, EmptyDict)
    /\ UNCHANGED <<files, dirs, hist>>

KvlmNext == KvlmParse \/ KvlmSerialize \/ KvlmReparse

SpecKvlm == KvlmInit /\ [][KvlmNext]_vars

----------------------------------------------------------------------------
(* Claims about the KVLM codec.                                            *)

\* The values the header lines give for `key`, in the order of the lines.
RECURSIVE ValuesOf(_, _, _)
ValuesOf(headers, key, i) ==
    IF i > Len(headers) THEN <<>>
    ELSE (IF headers[i].key = key THEN <<LogicalValue(headers[i].lines, 1)>> ELSE <<>>)
         \o ValuesOf(headers, key, i + 1)

KeysOf(headers) == {headers[i].key : i \in 1 .. Len(headers)}

\* How many of the first i header lines carry the key of line i.
Occurrence(headers, i) ==
    Cardinality({j \in 1 .. i : headers[j].key = headers[i].key})

\* C3: whenever kvlm_parse succeeds on a byte sequence, serializing the parsed
\* mapping succeeds, and parsing the serialized bytes succeeds and gives a
\* mapping equal to the first one.
C3_RoundTripLaw ==
    /\ op.name = "kvlm_serialize" => ret.tag = "Ok"
    /\ op.name = "kvlm_reparse" => ret.tag = "Ok" /\ ret.val = op.parsed_src.val

\* C9: for a payload built of one or more header lines, a blank line and a
\* message, kvlm_parse succeeds; its keys are the header keys and the empty
\* string; each key maps to all the values of its lines in line order; the
\* empty string maps to the message alone, unchanged.
C9_HeadersDecode ==
    (op.name = "kvlm_parse" /\ op.built /\ Len(op.headers) >= 1) =>
        /\ ret.tag = "Ok"
        /\ DOMAIN ret.val = KeysOf(op.headers) \cup {EMPTY}
        /\ \A k \in KeysOf(op.headers) : ret.val[k] = ValuesOf(op.headers, k, 1)
        /\ ret.val[EMPTY] = <<op.msg>>

\* A payload with the key "p" twice was parsed: "p" has both values.
C9_Witness ==
    /\ op.name = "kvlm_parse" /\ op.built /\ Len(op.headers) = 2
    /\ op.headers[1].key = <<112>> /\ op.headers[2].key = <<112>>
    /\ op.headers[1].lines # op.headers[2].lines
    /\ ret.tag = "Ok" /\ Len(ret.val[<<112>>]) = 2

\* C10: a header value written on several physical lines (each continuation
\* line prefixed by one space) parses to one value: the lines joined by
\* newlines, one space removed per continuation line; parsing goes on right
\* after the value's last newline, so the headers that follow and the message
\* are found.
C10_ContinuationLines ==
    (/\ op.name = "kvlm_parse" /\ op.built
     /\ \E i \in 1 .. Len(op.headers) : Len(op.headers[i].lines) >= 2) =>
        /\ ret.tag = "Ok"
        /\ \A i \in 1 .. Len(op.headers) :
              /\ op.headers[i].key \in DOMAIN ret.val
              /\ Len(ret.val[op.headers[i].key]) >= Occurrence(op.headers, i)
              /\ ret.val[op.headers[i].key][Occurrence(op.headers, i)]
                    = LogicalValue(op.headers[i].lines, 1)
        /\ EMPTY \in DOMAIN ret.val /\ ret.val[EMPTY] = <<op.msg>>

\* A two-line value whose continuation line is "  x" on disk was parsed, with a
\* header after it.
C10_Witness ==
    /\ op.name = "kvlm_parse" /\ op.built /\ Len(op.headers) = 2
    /\ op.headers[1].lines = <<<<>>, <<SP, 120>>>>
    /\ ret.tag = "Ok"
    /\ ret.val[op.headers[1].key][1] = <<NL, SP, 120>>

\* C15: a payload whose first byte is the newline of a blank line (start = 0),
\* and which holds no space or has that newline before its first space,
\* decodes successfully to the bytes after the newline as the one value of the
\* empty-string key; and every successful decode has exactly one value under
\* the empty-string key.
C15_BlankLineRule ==
    /\ (/\ op.name = "kvlm_parse"
        /\ Len(op.data) >= 1 /\ op.data[1] = NL
        /\ IsUtf8(Slice(op.data, 1, Len(op.data)))) =>
           /\ ret.tag = "Ok"
           /\ ret.val = DictInsert(EmptyDict, EMPTY, Slice(op.data, 1, Len(op.data)))
    /\ (op.name \in {"kvlm_parse", "kvlm_reparse"} /\ ret.tag = "Ok") =>
           /\ EMPTY \in DOMAIN ret.val
           /\ Len(ret.val[EMPTY]) = 1

----------------------------------------------------------------------------
(* Tree codec: git_tree.rs.  A Leaf(mode, path, sha) is a record; sha is   *)
(* the hex text of the digest.                                             *)

Leaf(mode, path, sha) == [mode |-> mode, path |-> path, sha |-> sha]

\* One leaf of tree_serialize: format!("{} {}\x00{}", leaf.0, leaf.1, leaf.2).
LeafBytes(leaf) == leaf.mode \o <<SP>> \o leaf.path \o <<NUL>> \o leaf.sha

RECURSIVE SerializeLeaves(_, _)
SerializeLeaves(items, i) ==
    IF i > Len(items) THEN <<>>
    ELSE LeafBytes(items[i]) \o SerializeLeaves(items, i + 1)

\* tree_serialize: the payload of GitObjectData("tree", payload).
tree_serialize(items) == SerializeLeaves(items, 1)

\* tree_parse_one: None, a panic, or Some((new_pos, leaf)).
tree_parse_one(raw, start) ==
    LET px == Position(raw, start, SP)
        x == px + start
        py == Position(raw, x, NUL)
        y == py + x
    IN IF px = -1 THEN [tag |-> "None", val |-> <<>>]
       ELSE IF ~(x - start = 5 \/ x - start = 6) THEN Panic("assert mode length")
       ELSE IF py = -1 THEN [tag |-> "None", val |-> <<>>]
       ELSE IF ~SliceOk(raw, y + 1, y + 1 + DigestLen) THEN Panic("slice")
       ELSE IF ~IsUtf8(Slice(raw, start, x)) THEN Panic("Could not parse mode")
       ELSE IF ~IsUtf8(Slice(raw, x + 1, y)) THEN Panic("Could not parse path")
       ELSE [tag |-> "Some",
             val |-> [pos |-> y + 1 + DigestLen,
                      leaf |-> Leaf(Slice(raw, start, x), Slice(raw, x + 1, y),
                                    HexEncode(Slice(raw, y + 1, y + 1 + DigestLen)))]]

\* tree_parse: the while loop.  When tree_parse_one returns None the loop body
\* changes nothing and the loop never ends ("Hang").
RECURSIVE tree_parse_from(_, _, _)
tree_parse_from(raw, pos, tree) ==
    IF ~(pos < Len(raw)) THEN Ok(tree)
    ELSE LET r == tree_parse_one(raw, pos)
         IN IF r.tag = "Panic" THEN r
            ELSE IF r.tag = "None" THEN [tag |-> "Hang", val |-> tree]
            ELSE tree_parse_from(raw, r.val.pos, Append(tree, r.val.leaf))

tree_parse(raw) == tree_parse_from(raw, 0, <<>>)

----------------------------------------------------------------------------
(* Inputs of the tree codec: payloads built of entries as git writes them  *)
(* (mode SP path NUL 20 raw digest bytes), and their proper prefixes.      *)

MaxEntries == 2

MODE_FILE == <<49, 48, 48, 54, 52, 52>>   \* "100644"
MODE_DIR == <<52, 48, 48, 48, 48>>        \* "40000"

\* Two digests: one of bytes 1..20 (it holds a newline), one that holds a NUL,
\* a space and bytes above 127.
DigestA == [i \in 1 .. DigestLen |-> i]
DigestB == [i \in 1 .. DigestLen |-> IF i = 1 THEN NUL ELSE IF i = 2 THEN SP ELSE 256 - i]

EntryModes == {MODE_FILE, MODE_DIR}
EntryPaths == {<<97>>, <<100, 105, 114>>}     \* "a", "dir"
Entries == [mode : EntryModes, path : EntryPaths, digest : {DigestA, DigestB}]

EntryBytes(e) == e.mode \o <<SP>> \o e.path \o <<NUL>> \o e.digest

RECURSIVE EntriesBytes(_, _)
EntriesBytes(es, i) ==
    IF i > Len(es) THEN <<>> ELSE EntryBytes(es[i]) \o EntriesBytes(es, i + 1)

TreeInit ==
    /\ files = NoFiles
    /\ dirs = {}
    /\ hist = NoHist
    /\ ret = NoResult
    /\ \E es \in SeqsUpTo(Entries, MaxEntries) :
         \/ op = [name |-> "tree_input", data |-> EntriesBytes(es, 1),
                  built |-> TRUE, entries |-> es]
         \/ \E n \in 0 .. (Len(EntriesBytes(es, 1)) - 1) :
              op = [name |-> "tree_input", data |-> SubSeq(EntriesBytes(es, 1), 1, n),
                    built |-> FALSE, entries |-> <<>>]

\* tree.deserialize(data): self.items = tree_parse(data)
TreeDeserialize ==
    /\ op.name = "tree_input"
    /\ op' = [op EXCEPT !.name = "tree_deserialize"]
    /\ ret' = tree_parse(op.data)
    /\ UNCHANGED <<files, dirs, hist>>

\* tree.serialize() of the tree just deserialized
TreeSerialize ==
    /\ op.name = "tree_deserialize"
    /\ ret.tag = "Ok"
    /\ op' = [op EXCEPT !.name = "tree_serialize"]
    /\ ret' = Ok(tree_serialize(ret.val))
    /\ UNCHANGED <<files, dirs, hist>>

TreeNext == TreeDeserialize \/ TreeSerialize

SpecTree == TreeInit /\ [][TreeNext]_vars

\* C2: decoding a well-formed tree payload and re-encoding the leaves gives the
\* bytes of the original payload.
C2_TreeRoundTrip ==
    /\ (op.name = "tree_deserialize" /\ op.built) => ret.tag = "Ok"
    /\ (op.name = "tree_serialize" /\ op.built) => ret.val = op.data

\* C16: tree_parse ends on every payload, with the leaves or with a failure.
C16_TreeParseTerminates ==
    op.name = "tree_deserialize" => ret.tag \in {"Ok", "Err", "Panic"}

\* The leaves the entries stand for: mode, path and the hex text of the digest.
LeavesOf(es) ==
    [i \in 1 .. Len(es) |-> Leaf(es[i].mode, es[i].path, HexEncode(es[i].digest))]

\* C11: decoding the back-to-back encoding of N >= 0 entries succeeds and
\* returns exactly N leaves in payload order, each with the entry's mode, its
\* path and the lowercase hex text of its digest; the empty payload gives the
\* empty tree.
C11_TreeDecode ==
    (op.name = "tree_deserialize" /\ op.built) =>
        /\ ret.tag = "Ok"
        /\ Len(ret.val) = Len(op.entries)
        /\ ret.val = LeavesOf(op.entries)
        /\ \A i \in 1 .. Len(ret.val) :
              /\ Len(ret.val[i].sha) = 2 * DigestLen
              /\ \A j \in 1 .. Len(ret.val[i].sha) :
                    ret.val[i].sha[j] \in (48 .. 57) \cup (97 .. 102)

\* The entries ("100644", "a", digest with a NUL and a space) and ("40000",
\* "dir", the other digest) were decoded: two leaves, in that order.
C11_Witness ==
    /\ op.name = "tree_deserialize" /\ op.built
    /\ op.entries = <<[mode |-> MODE_FILE, path |-> <<97>>, digest |-> DigestB],
                      [mode |-> MODE_DIR, path |-> <<100, 105, 114>>, digest |-> DigestA]>>
    /\ ret.tag = "Ok" /\ Len(ret.val) = 2
    /\ ret.val[1].path = <<97>> /\ ret.val[2].path = <<100, 105, 114>>

----------------------------------------------------------------------------
(* The digest and the compression the store calls (crates crypto, flate2). *)

\* Sha1::input + result: a digest of DigestLen bytes.  SHA-1 itself is replaced
\* by a byte-wise mixing function: deterministic, a function of the framed
\* bytes alone, and free of collisions on the objects of this model (checked
\* by DigestsDistinct).
RECURSIVE Sha1Mix(_, _, _)
Sha1Mix(b, i, acc) ==
    IF i > Len(b) THEN acc
    ELSE Sha1Mix(b, i + DigestLen, (acc * 33 + b[i] + 1) % 256)

Sha1(b) == [k \in 1 .. DigestLen |-> Sha1Mix(b, k, (Len(b) + k) % 256)]

\* sha.result_str(): the digest as 40 lowercase hex digits.
Sha1Hex(b) == HexEncode(Sha1(b))

\* The sum of w(i) * d[i] over lo <= i <= hi, by halving.
RECURSIVE WeightedSum(_, _, _, _)
WeightedSum(d, lo, hi, top) ==
    IF lo > hi THEN 0
    ELSE IF lo = hi THEN (top - lo) * d[lo]
    ELSE WeightedSum(d, lo, (lo + hi) \div 2, top)
         + WeightedSum(d, (lo + hi) \div 2 + 1, hi, top)

\* Adler-32 of the data, as its four bytes, most significant first: a is 1
\* plus the sum of the bytes, b the sum of the successive values of a, both
\* modulo 65521.
Adler32(d) ==
    LET a == (1 + WeightedSum(d, 1, Len(d), Len(d) + 1)
                - WeightedSum(d, 1, Len(d), Len(d))) % 65521
        b == (Len(d) + WeightedSum(d, 1, Len(d), Len(d) + 1)) % 65521
    IN <<b \div 256, b % 256, a \div 256, a % 256>>

\* A zlib stream of the data as git's zlib writes it at level 0: the two header
\* bytes, one final stored block (LEN, NLEN, data) and the Adler-32.  The
\* object files that exist before this program runs are such streams.
ZlibCompress(d) ==
    <<120, 1, 1, Len(d) % 256, Len(d) \div 256,
      255 - (Len(d) % 256), 255 - (Len(d) \div 256)>> \o d \o Adler32(d)

\* ZlibDecoder::new(f).read_to_end(&mut raw): Ok(raw), or the io::Error of a
\* corrupt stream.  A stream must start with a zlib header (method 8, window
\* <= 32K, header check, no dictionary); of the block types only the stored
\* block is decoded here.
ZlibDecompress(f) ==
    IF Len(f) < 2 THEN Err("IO")
    ELSE IF ~(/\ f[1] % 16 = 8 /\ f[1] \div 16 <= 7
              /\ (f[1] * 256 + f[2]) % 31 = 0 /\ (f[2] \div 32) % 2 = 0)
         THEN Err("IO")
    ELSE IF Len(f) < 7 \/ f[3] # 1 THEN Err("IO")
    ELSE LET n == f[4] + 256 * f[5]
         IN IF f[6] + 256 * f[7] # 65535 - n \/ Len(f) # 7 + n + 4 THEN Err("IO")
            ELSE LET d == SubSeq(f, 8, 7 + n)
                 IN IF SubSeq(f, 8 + n, 11 + n) # Adler32(d) THEN Err("IO")
                    ELSE Ok(d)

\* str::parse::<usize>() on a 64-bit target: an optional '+', then one or more
\* decimal digits, at most usize::MAX.  Ok(the digits without leading zeros).
USIZE_MAX == <<49, 56, 52, 52, 54, 55, 52, 52, 48, 55, 51, 55, 48, 57, 53, 53, 49, 54, 49, 53>>

RECURSIVE StripZeros(_)
StripZeros(s) == IF Len(s) > 1 /\ s[1] = 48 THEN StripZeros(Tail(s)) ELSE s

ParseUsize(s) ==
    LET digits == IF Len(s) >= 1 /\ s[1] = 43 THEN Tail(s) ELSE s
        canon == StripZeros(digits)
    IN IF Len(digits) = 0 THEN Err("ParseIntError")
       ELSE IF \E i \in 1 .. Len(digits) : digits[i] < 48 \/ digits[i] > 57
            THEN Err("ParseIntError")
       ELSE IF Len(canon) > Len(USIZE_MAX)
               \/ (Len(canon) = Len(USIZE_MAX) /\ StrLess(USIZE_MAX, canon, 1))
            THEN Err("ParseIntError")
       ELSE Ok(canon)

----------------------------------------------------------------------------
(* The filesystem: files (path -> bytes) and dirs (set of paths).  The     *)
(* root <<>> is a directory.                                               *)

Fs(f, d) == [files |-> f, dirs |-> d]

IsDir(fs, p) == p = <<>> \/ p \in fs.dirs
Exists(fs, p) == IsDir(fs, p) \/ p \in DOMAIN fs.files
Parent(p) == SubSeq(p, 1, Len(p) - 1)
Prefixes(p) == {SubSeq(p, 1, n) : n \in 1 .. Len(p)}

\* std::fs::create_dir_all(p)
create_dir_all(fs, p) ==
    IF \E q \in Prefixes(p) : q \in DOMAIN fs.files THEN Err("IO")
    ELSE Ok(Fs(fs.files, fs.dirs \cup Prefixes(p)))

\* A plausible slip: the file is opened for appending, not truncated.
FileCreateAppends(fs, p, bytes) ==
    IF IsDir(fs, p) \/ ~IsDir(fs, Parent(p)) THEN Err("IO")
    ELSE Ok(Fs([q \in DOMAIN fs.files \cup {p} |->
                   IF q # p THEN fs.files[q]
                   ELSE IF p \in DOMAIN fs.files THEN fs.files[p] \o bytes
                   ELSE bytes],
               fs.dirs))

\* File::create(p) then write_all(bytes): the file is created or truncated.
FileCreateWrite(fs, p, bytes) ==
    IF IsDir(fs, p) \/ ~IsDir(fs, Parent(p)) THEN Err("IO")
    ELSE Ok(Fs([q \in DOMAIN fs.files \cup {p} |-> IF q = p THEN bytes ELSE fs.files[q]],
               fs.dirs))

----------------------------------------------------------------------------
(* Repository paths: repository.rs, repo_path / repo_dir / repo_file.      *)

GIT_DIR == <<<<46, 103, 105, 116>>>>          \* worktree.join(".git")

repo_path(path_segments) == GIT_DIR \o path_segments

\* repo_dir(path_segments, mkdir): Ok(filesystem), Err or a panic.  Any
\* Some(_) creates the directory.
repo_dir(fs, path_segments, mkdir) ==
    LET p == repo_path(path_segments)
    IN IF Exists(fs, p)
       THEN IF IsDir(fs, p) THEN Ok(fs) ELSE Panic("Not a directory")
       ELSE IF mkdir # "None" THEN create_dir_all(fs, p) ELSE Ok(fs)

\* repo_file(path_segments, mkdir): the filesystem after it, or a panic.
repo_file(fs, path_segments, mkdir) ==
    LET r == repo_dir(fs, Parent(path_segments), mkdir)
    IN IF r.tag = "Err" THEN Panic("repo_file") ELSE r

\* ["objects", &hash[0..2], &hash[2..]]
ObjectSegments(hash) == <<OBJECTS, Slice(hash, 0, 2), Slice(hash, 2, Len(hash))>>

----------------------------------------------------------------------------
(* Objects: git_object.rs GitObject::new, git_blob.rs, git_commit.rs,      *)
(* git_tree.rs.  repo is "Some" or "None" (Option<Repository>).            *)

GitObjectData(fmt, data) == [fmt |-> fmt, data |-> data]

\* Blob::new: Blob { repo, data } after deserialize(data)
Blob_new(repo, god) ==
    Ok([kind |-> "blob", repo |-> repo, data |-> god, kvlm |-> EmptyDict, items |-> <<>>])

\* Commit { repo, kvlm } for the result r of kvlm_parse(None, None), or the
\* panic of .expect("Could not parse the kvlm object.")
Commit_of(repo, r) ==
    IF r.tag = "Err" THEN Panic("Could not parse the kvlm object.")
    ELSE IF r.tag = "Panic" THEN r
    ELSE Ok([kind |-> "commit", repo |-> repo, data |-> GitObjectData(<<>>, <<>>),
             kvlm |-> r.val, items |-> <<>>])

\* Commit::new: deserialize is kvlm_parse(None, None).expect(..)
Commit_new(repo, god) == Commit_of(repo, kvlm_parse(god.data, 0, EmptyDict))

\* Tree { repo, items } for the result r of tree_parse(data)
Tree_of(repo, r) ==
    IF r.tag # "Ok" THEN r
    ELSE Ok([kind |-> "tree", repo |-> repo, data |-> GitObjectData(<<>>, <<>>),
             kvlm |-> EmptyDict, items |-> r.val])

\* Tree::new: deserialize is tree_parse(data)
Tree_new(repo, god) == Tree_of(repo, tree_parse(god.data))

\* GitObject::new(repo, Some(data)): the variant of the type tag, or a panic.
GitObject_new(repo, god) ==
    IF god.fmt = BLOB THEN Blob_new(repo, god)
    ELSE IF god.fmt = COMMIT THEN Commit_new(repo, god)
    ELSE IF god.fmt = TREE THEN Tree_new(repo, god)
    ELSE Panic("unknown type")

\* GitSerDe::serialize of the three variants
serialize(obj) ==
    IF obj.kind = "blob" THEN Ok(GitObjectData(obj.data.fmt, obj.data.data))
    ELSE IF obj.kind = "commit"
         THEN LET r == kvlm_serialize(obj.kvlm)
              IN IF r.tag = "Ok" THEN Ok(GitObjectData(COMMIT, r.val)) ELSE r
    ELSE Ok(GitObjectData(TREE, tree_serialize(obj.items)))

----------------------------------------------------------------------------
(* GitObject::write_object (persist).                                      *)

\* fmt SP data_length NUL data
Frame(fmt, data) == fmt \o <<SP>> \o UsizeToString(Len(data)) \o <<NUL>> \o data

\* A plausible slip: every value of the flag writes.
ShouldWriteAlways(actually_write) == TRUE

\* match actually_write { Some(false) => {} _ => write }
ShouldWrite(actually_write) == actually_write # "Some(false)"

\* ZlibDecoder::new(f).write_all(&result): flate2::read::ZlibDecoder is a
\* reader; its Write impl hands the bytes to the wrapped file as they are.
DecoderWriteAll(result) == result

\* write_object(obj, actually_write) on filesystem fs: what it returns (or the
\* panic) and the filesystem it leaves.
write_object(fs, obj, actually_write) ==
    LET ser == serialize(obj)
    IN IF ser.tag # "Ok" THEN [ret |-> ser, fs |-> fs]
       ELSE IF ~IsUtf8(ser.val.data)
            THEN [ret |-> Panic("from_utf8 unwrap"), fs |-> fs]
       ELSE LET result == Frame(ser.val.fmt, ser.val.data)
                hash == Sha1Hex(result)
            IN IF ~ShouldWrite(actually_write) THEN [ret |-> Ok(hash), fs |-> fs]
               ELSE IF obj.repo = "None" THEN [ret |-> Panic("No repo set"), fs |-> fs]
               ELSE LET d == repo_file(fs, ObjectSegments(hash), "Some(true)")
                    IN IF d.tag # "Ok" THEN [ret |-> d, fs |-> fs]
                       ELSE LET w == FileCreateWrite(d.val, repo_path(ObjectSegments(hash)),
                                                     DecoderWriteAll(result))
                            IN IF w.tag # "Ok"
                               THEN [ret |-> Panic("File::create unwrap"), fs |-> d.val]
                               ELSE [ret |-> Ok(hash), fs |-> w.val]

----------------------------------------------------------------------------
(* Repository::read_object (resolve).                                      *)

DigitsLess(a, b) == Len(a) < Len(b) \/ (Len(a) = Len(b) /\ StrLess(a, b, 1))

\* A plausible slip: only a declared length beyond the payload is rejected.
BadLengthOnlyBeyond(size, actual) == DigitsLess(UsizeToString(actual), size)

\* size != raw.len() - y - 1, size as parsed digits
BadLength(size, actual) == size # UsizeToString(actual)

\* Lines 246-253: the length test and the object data, for the parsed size.
\* Panic("underflow") stands for raw.len() - y - 1 below zero (no NUL and the
\* length field ends the file): the subtraction panics in a debug build and
\* wraps in a release build.
read_data(raw, x, y, size) ==
    IF size.tag # "Ok" THEN size
    ELSE IF Len(raw) - y - 1 < 0
         THEN IF size.val = USIZE_MAX THEN Panic("underflow, size = MAX")
              ELSE Panic("underflow")
    ELSE IF BadLength(size.val, Len(raw) - y - 1) THEN Panic("bad length")
    ELSE Ok(GitObjectData(Slice(raw, 0, x), Slice(raw, y + 1, Len(raw))))

\* Lines 240-244: y and the length field; py is the position of the NUL.
read_size(raw, x, py) ==
    IF ~SliceOk(raw, x + 1, (IF py = -1 THEN x ELSE py) + x) THEN Panic("slice")
    ELSE IF ~IsUtf8(Slice(raw, x + 1, (IF py = -1 THEN x ELSE py) + x))
         THEN Err("FromUtf8Error")
    ELSE read_data(raw, x, (IF py = -1 THEN x ELSE py) + x,
                   ParseUsize(Slice(raw, x + 1, (IF py = -1 THEN x ELSE py) + x)))

\* Lines 235-236: the type tag ends at the first space, at index x.
read_type(raw, x) ==
    IF x = -1 THEN Panic("unwrap on None")
    ELSE IF ~IsUtf8(Slice(raw, 0, x)) THEN Panic("from_utf8 unwrap")
    ELSE read_size(raw, x, Position(raw, x, NUL))

\* Lines 228-232: z is what the decoder read.
read_raw(z) == IF z.tag # "Ok" THEN z ELSE read_type(z.val, Position(z.val, 0, SP))

\* Lines 220-253: the type tag and payload of the object file, or the failure.
read_frame(fs, sha) ==
    IF Len(sha) < 2 THEN Panic("slice")
    ELSE IF repo_file(fs, ObjectSegments(sha), "None").tag # "Ok"
         THEN repo_file(fs, ObjectSegments(sha), "None")
    ELSE IF repo_path(ObjectSegments(sha)) \notin DOMAIN fs.files THEN Err("IO")
    ELSE read_raw(ZlibDecompress(fs.files[repo_path(ObjectSegments(sha))]))

\* Lines 255-269: the constructor of the type tag
read_dispatch(god) ==
    IF god.fmt = COMMIT THEN Commit_new("Some", god)
    ELSE IF god.fmt = BLOB THEN Blob_new("Some", god)
    ELSE IF god.fmt = TREE THEN Tree_new("Some", god)
    ELSE Panic("Unknown type")

\* The object of the frame f, or the failure that f is.
read_construct(f) == IF f.tag = "Ok" THEN read_dispatch(f.val) ELSE f

read_object(fs, sha) == read_construct(read_frame(fs, sha))

\* The outcomes a build can show where the model says "underflow": a debug
\* build panics on the subtraction, a release build wraps and goes on to the
\* length test (or, when size is usize::MAX, to the slice past the end).
BuildOutcomes(r) ==
    IF r = Panic("underflow")
    THEN {Panic("attempt to subtract with overflow"), Panic("bad length")}
    ELSE IF r = Panic("underflow, size = MAX")
    THEN {Panic("attempt to subtract with overflow"), Panic("slice")}
    ELSE {r}

\* The outcomes a build can show for one read_object call.
ReadOutcomes(fs, sha) == BuildOutcomes(read_object(fs, sha))

\* read_object(sha) as one step; ctor is what the constructor was given.
ReadObject(sha) ==
    /\ op' = [name |-> "read_object", sha |-> sha,
              ctor |-> read_frame(Fs(files, dirs), sha)]
    /\ ret' \in ReadOutcomes(Fs(files, dirs), sha)
    /\ UNCHANGED <<files, dirs, hist>>

----------------------------------------------------------------------------
(* The store: objects are persisted and resolved in a repository that may  *)
(* already hold objects written by git.                                    *)

MaxBlobLen == 1      \* longest blob content drawn from BlobBytes

BlobBytes == {97, 255}
CommitPayload == <<116, SP, 120, NL, NL, 109>>                 \* "t x\n\nm"
TreePayload == EntryBytes([mode |-> MODE_FILE, path |-> <<97>>, digest |-> DigestA])
TAG == <<116, 97, 103>>                                        \* "tag"

\* What hash-object may be given: a type and the bytes of a file.
WriteInputs ==
    {GitObjectData(BLOB, d) : d \in SeqsUpTo(BlobBytes, MaxBlobLen)}
    \cup {GitObjectData(COMMIT, CommitPayload), GitObjectData(TREE, TreePayload),
          GitObjectData(TAG, <<97>>)}

\* The object file git writes for a payload: the compressed frame.
GitObjectFile(fmt, data) == ZlibCompress(Frame(fmt, data))

\* The repository after init: .git and .git/objects.
RepoDirs == {GIT_DIR, repo_path(<<OBJECTS>>)}

\* The filesystem with one more object file (and its directory).
WithObjectFile(fs, sha, bytes) ==
    Fs([q \in DOMAIN fs.files \cup {repo_path(ObjectSegments(sha))} |->
           IF q = repo_path(ObjectSegments(sha)) THEN bytes ELSE fs.files[q]],
       fs.dirs \cup Prefixes(Parent(repo_path(ObjectSegments(sha)))))

\* The identifiers read in the store specification.
StoreIds == {Sha1Hex(Frame(g.fmt, g.data)) : g \in WriteInputs}
            \cup {Sha1Hex(Frame(TREE, tree_serialize(tree_parse(TreePayload).val)))}

StoreInit ==
    /\ op = [name |-> "init"]
    /\ ret = NoResult
    /\ hist = NoHist
    /\ \/ /\ files = NoFiles
          /\ dirs = RepoDirs
       \/ LET fs == WithObjectFile(Fs(NoFiles, RepoDirs), Sha1Hex(Frame(BLOB, <<97>>)),
                                   GitObjectFile(BLOB, <<97>>))
          IN files = fs.files /\ dirs = fs.dirs

\* GitObject::write_object(GitObject::new(repo, Some(data)), actually_write),
\* the call of object_hash, for every value of the flag.
WriteObject(repo, god, actually_write) ==
    LET obj == GitObject_new(repo, god)
        w == write_object(Fs(files, dirs), obj.val, actually_write)
        key == serialize(obj.val).val
    IN IF obj.tag # "Ok"
       THEN /\ op' = [name |-> "write_object", repo |-> repo, god |-> god,
                      flag |-> actually_write, obj |-> obj, key |-> GitObjectData(<<>>, <<>>)]
            /\ ret' = obj
            /\ UNCHANGED <<files, dirs, hist>>
       ELSE /\ op' = [name |-> "write_object", repo |-> repo, god |-> god,
                      flag |-> actually_write, obj |-> obj, key |-> key]
            /\ ret' = w.ret
            /\ files' = w.fs.files
            /\ dirs' = w.fs.dirs
            /\ hist' = IF w.ret.tag = "Ok" /\ ShouldWrite(actually_write)
                          /\ key \notin DOMAIN hist
                       THEN [k \in DOMAIN hist \cup {key} |->
                                IF k = key THEN w.ret.val ELSE hist[k]]
                       ELSE hist

StoreNext ==
    \/ \E repo \in {"Some", "None"}, god \in WriteInputs,
          actually_write \in {"None", "Some(true)", "Some(false)"} :
            WriteObject(repo, god, actually_write)
    \/ \E sha \in StoreIds : ReadObject(sha)

SpecStore == StoreInit /\ [][StoreNext]_vars

\* No two objects of the store specification share a digest.
DigestsDistinct ==
    \A g, h \in WriteInputs :
        Sha1(Frame(g.fmt, g.data)) = Sha1(Frame(h.fmt, h.data)) => g = h

----------------------------------------------------------------------------
(* Claims about persist and resolve in the store.                          *)

Range(f) == {f[k] : k \in DOMAIN f}
KeyOfId(sha) == CHOOSE k \in DOMAIN hist : hist[k] = sha

\* C1: resolving an identifier that a persist with writing enabled returned
\* succeeds, and the object it yields serializes to the type tag and payload
\* that were persisted.
C1_WriteReadRoundTrip ==
    (op.name = "read_object" /\ op.sha \in Range(hist)) =>
        /\ ret.tag = "Ok"
        /\ serialize(ret.val) = Ok(KeyOfId(op.sha))

\* C4: persisting content that an earlier persist of this run already wrote
\* returns the identifier the first persist returned, whatever ran in
\* between, and leaves every file and directory as it was: the object file of
\* that identifier holds the bytes of the first write.
C4_PersistIdempotent ==
    [][(op'.name = "write_object" /\ op'.obj.tag = "Ok" /\ op'.key \in DOMAIN hist) =>
          /\ ret'.tag = "Ok" => ret'.val = hist[op'.key]
          /\ op'.repo = "Some" => ret'.tag = "Ok"
          /\ files' = files /\ dirs' = dirs
          /\ repo_path(ObjectSegments(hist[op'.key])) \in DOMAIN files
          /\ files[repo_path(ObjectSegments(hist[op'.key]))]
                = Frame(op'.key.fmt, op'.key.data)]_vars

\* The blob "a" was persisted, another object was persisted after it, and the
\* blob "a" has just been persisted again with writing enabled.
C4_Witness ==
    /\ op.name = "write_object" /\ op.flag = "Some(true)" /\ op.repo = "Some"
    /\ op.god = GitObjectData(BLOB, <<97>>)
    /\ ret.tag = "Ok"
    /\ Cardinality(DOMAIN hist) >= 2
    /\ hist[GitObjectData(BLOB, <<97>>)] = ret.val
    /\ repo_path(ObjectSegments(ret.val)) \in DOMAIN files

\* C5: persist with Some(false) changes no file and no directory, and returns
\* what persist with Some(true) returns for the same object held with a
\* repository; an object held without a repository is enough.
C5_DryRunPersist ==
    [][(op'.name = "write_object" /\ op'.flag = "Some(false)" /\ op'.obj.tag = "Ok") =>
          /\ files' = files /\ dirs' = dirs
          /\ LET t == write_object(Fs(files, dirs), [op'.obj.val EXCEPT !.repo = "Some"],
                                   "Some(true)").ret
             IN /\ t.tag = "Ok" => ret' = t
                /\ t.tag # "Ok" => ret'.tag # "Ok"]_vars

\* C19: persist of a blob of any bytes, valid UTF-8 or not, succeeds and
\* returns the digest of "blob" SP decimal-length NUL payload (an object held
\* without a repository is persisted with Some(false)).
C19_FramesEveryPayload ==
    (/\ op.name = "write_object"
     /\ op.god.fmt = BLOB
     /\ op.repo = "Some" \/ op.flag = "Some(false)") =>
        ret = Ok(Sha1Hex(Frame(BLOB, op.god.data)))

\* An object without a repository was persisted with Some(false) in a store
\* that does not hold it, and the identifier came back.
C5_Witness ==
    /\ op.name = "write_object" /\ op.flag = "Some(false)" /\ op.repo = "None"
    /\ ret.tag = "Ok"
    /\ repo_path(ObjectSegments(ret.val)) \notin DOMAIN files

----------------------------------------------------------------------------
(* Resolve of one object file that something else wrote: its frame is a    *)
(* type tag, a space, a length field, and (mostly) a NUL and a payload.    *)

MaxPayloadLen == 2   \* longest payload drawn from PayloadBytes

PayloadBytes == {97, NUL}
Payloads == SeqsUpTo(PayloadBytes, MaxPayloadLen) \cup {CommitPayload, TreePayload}

\* "18446744073709551616": usize::MAX + 1
TOO_BIG == <<49, 56, 52, 52, 54, 55, 52, 52, 48, 55, 51, 55, 48, 57, 53, 53, 49, 54, 49, 54>>

\* Length fields: the right and wrong decimal lengths, "+1", "01", "", "1x"
\* and a number no usize holds.
LenFields ==
    {UsizeToString(n) : n \in 0 .. (MaxPayloadLen + 1)}
    \cup {UsizeToString(Len(CommitPayload)), UsizeToString(Len(TreePayload))}
    \cup {<<43, 49>>, <<48, 49>>, <<>>, <<49, 120>>, TOO_BIG}

StoredFrames ==
    {fmt \o <<SP>> \o field \o <<NUL>> \o payload :
        fmt \in {BLOB, COMMIT, TREE}, field \in LenFields, payload \in Payloads}
    \cup {BLOB \o <<SP, 49, 50, 51>>, BLOB \o <<SP, 49, 50, 51, 52>>, BLOB}

\* The name of the object file (the identifier asked for).
ResolveSha == Sha1Hex(<<>>)

ResolveInit ==
    /\ op = [name |-> "init"]
    /\ ret = NoResult
    /\ hist = NoHist
    /\ \E raw \in StoredFrames :
          LET fs == WithObjectFile(Fs(NoFiles, RepoDirs), ResolveSha, ZlibCompress(raw))
          IN files = fs.files /\ dirs = fs.dirs

ResolveNext == op.name = "init" /\ ReadObject(ResolveSha)

SpecResolve == ResolveInit /\ [][ResolveNext]_vars

\* The decompressed bytes of the object file, and their parts as the claim
\* names them: the length field between the first space and the first NUL,
\* the bytes after the first NUL.
StoredRaw == ZlibDecompress(files[repo_path(ObjectSegments(ResolveSha))]).val
FirstSp(raw) == Position(raw, 0, SP)
FirstNul(raw) == Position(raw, 0, NUL)
HasFrame(raw) == FirstSp(raw) # -1 /\ FirstNul(raw) > FirstSp(raw)
FieldOf(raw) == Slice(raw, FirstSp(raw) + 1, FirstNul(raw))
AfterNul(raw) == Slice(raw, FirstNul(raw) + 1, Len(raw))

\* C6: when the length field of an object file is a usize other than the
\* number of bytes after the first NUL, read_object panics "bad length"; when
\* it is no usize at all read_object returns an error; it returns an object
\* only when the two are equal, and then the constructor was given the type
\* tag and exactly the bytes after the NUL.
C6_BadLengthRejected ==
    (op.name = "read_object" /\ HasFrame(StoredRaw)) =>
        LET size == ParseUsize(FieldOf(StoredRaw))
            actual == UsizeToString(Len(AfterNul(StoredRaw)))
            given == Ok(GitObjectData(Slice(StoredRaw, 0, FirstSp(StoredRaw)),
                                      AfterNul(StoredRaw)))
        IN /\ (size.tag = "Ok" /\ size.val # actual) => ret = Panic("bad length")
           /\ size.tag # "Ok" => ret.tag = "Err"
           /\ (size.tag = "Ok" /\ size.val = actual) => op.ctor = given
           /\ ret.tag = "Ok" => (size.tag = "Ok" /\ size.val = actual /\ op.ctor = given)

\* A blob file that declares 3 bytes and holds 2 was read: the panic.
C6_Witness ==
    /\ op.name = "read_object"
    /\ StoredRaw = BLOB \o <<SP, 51, NUL, 97, 97>>
    /\ ret = Panic("bad length")

\* C12: read_object of a malformed object file gives the caller an error
\* value: it returns Ok or Err, never a panic or a loop without end, and a
\* length field that is a usize other than the number of bytes after the NUL
\* gives Err.
C12_TypedDecodeErrors ==
    op.name = "read_object" =>
        /\ ret.tag \in {"Ok", "Err"}
        /\ (/\ HasFrame(StoredRaw)
            /\ ParseUsize(FieldOf(StoredRaw)).tag = "Ok"
            /\ ParseUsize(FieldOf(StoredRaw)).val
                  # UsizeToString(Len(AfterNul(StoredRaw)))) => ret.tag = "Err"

----------------------------------------------------------------------------
(* The repository on disk: Repository::new and repo_find read .git/config. *)

CONFIG == <<99, 111, 110, 102, 105, 103>>      \* "config"
CORE == <<99, 111, 114, 101>>                  \* "core"
VERSION_KEY == <<114, 101, 112, 111, 115, 105, 116, 111, 114, 121, 102, 111, 114,
                 109, 97, 116, 118, 101, 114, 115, 105, 111, 110>>
                                               \* "repositoryformatversion"
ZERO == <<48>>                                 \* "0"

\* str::trim on the ASCII blanks an ini line holds.
RECURSIVE TrimStart(_)
TrimStart(s) ==
    IF Len(s) >= 1 /\ s[1] \in {SP, 9, 13} THEN TrimStart(Tail(s)) ELSE s

RECURSIVE TrimEnd(_)
TrimEnd(s) ==
    IF Len(s) >= 1 /\ s[Len(s)] \in {SP, 9, 13}
    THEN TrimEnd(SubSeq(s, 1, Len(s) - 1)) ELSE s

Trim(s) == TrimEnd(TrimStart(s))

\* str::to_lowercase on ASCII (Ini::new() is case-insensitive).
Lower(s) == [i \in 1 .. Len(s) |-> IF s[i] >= 65 /\ s[i] <= 90 THEN s[i] + 32 ELSE s[i]]

\* Ini::load + Ini::get(section, key): the value of the last `key = value`
\* line of the section, "None" when there is none.  Sections are `[name]`
\* lines; lines that start with ';' or '#' are comments.
RECURSIVE IniGet(_, _, _, _, _)
IniGet(text, section, key, current, found) ==
    IF Len(text) = 0 THEN found
    ELSE LET n == Position(text, 0, NL)
             line == Trim(IF n = -1 THEN text ELSE Slice(text, 0, n))
             rest == IF n = -1 THEN <<>> ELSE Slice(text, n + 1, Len(text))
             eq == Position(line, 0, 61)
         IN IF Len(line) = 0 \/ line[1] \in {59, 35}
            THEN IniGet(rest, section, key, current, found)
            ELSE IF line[1] = 91 /\ line[Len(line)] = 93
            THEN IniGet(rest, section, key, Lower(Slice(line, 1, Len(line) - 1)), found)
            ELSE IF eq # -1 /\ current = section /\ Lower(Trim(Slice(line, 0, eq))) = key
            THEN IniGet(rest, section, key, current,
                        [tag |-> "Some", val |-> Trim(Slice(line, eq + 1, Len(line)))])
            ELSE IniGet(rest, section, key, current, found)

\* Repository::new(path, false) for the worktree the process runs in.
Repository_new(fs) ==
    IF ~IsDir(fs, GIT_DIR) THEN Panic("Not a Git repository")
    ELSE LET d == repo_file(fs, <<CONFIG>>, "None")
         IN IF d.tag # "Ok" THEN d
            ELSE IF ~Exists(fs, repo_path(<<CONFIG>>)) THEN Panic("Configuration file missing")
            ELSE IF repo_path(<<CONFIG>>) \notin DOMAIN fs.files THEN Panic("config load unwrap")
            ELSE IF IniGet(fs.files[repo_path(<<CONFIG>>)], CORE, VERSION_KEY,
                           <<>>, [tag |-> "None", val |-> <<>>])
                    # [tag |-> "Some", val |-> ZERO]
            THEN Panic("Unsupported repositoryformatversion")
            ELSE Ok("Some")

\* repo_find(".", None): the worktree is the directory the process runs in,
\* and it has no parent that holds a repository.
repo_find(fs) ==
    IF IsDir(fs, GIT_DIR) THEN Repository_new(fs) ELSE Panic("No git directory.")

\* object_find(name, None, None)
object_find(name) == name

----------------------------------------------------------------------------
(* Checkout: main.rs checkout and Repository::tree_checkout.               *)

\* The components of a path string (split at '/').
RECURSIVE Components(_)
Components(s) ==
    LET p == Position(s, 0, 47)
    IN IF p = -1 THEN (IF Len(s) = 0 THEN <<>> ELSE <<s>>)
       ELSE (IF p = 0 THEN <<>> ELSE <<Slice(s, 0, p)>>)
            \o Components(Slice(s, p + 1, Len(s)))

\* A plausible slip: the joined name replaces the base path.
PathJoinReplaces(path, s) == Components(s)

\* PathBuf::join(path, s): an absolute s replaces path.
PathJoin(path, s) ==
    IF Len(s) >= 1 /\ s[1] = 47 THEN Components(s) ELSE path \o Components(s)

\* read_dir().next().is_none()
IsEmptyDir(fs, p) ==
    \A q \in DOMAIN fs.files \cup fs.dirs : Len(q) = 0 \/ Parent(q) # p

\* Path::canonicalize
canonicalize(fs, p) == IF Exists(fs, p) THEN Ok(p) ELSE Err("IO")

\* tree_checkout(tree, path), from leaf i of tree.items on: the result and the
\* filesystem it leaves.  The recursive call is given `path`, as the code
\* gives it.
RECURSIVE tree_checkout(_, _, _, _)

\* After the leaves of a subtree: the error, or the next leaf.
checkout_rest(sub, items, i, path) ==
    IF sub.ret.tag # "Ok" THEN sub ELSE tree_checkout(sub.fs, items, i + 1, path)

\* Lines 322-325: c is the result of create_dir_all(dest).
checkout_subtree(fs, c, tree, items, i, path) ==
    IF c.tag # "Ok" THEN [ret |-> c, fs |-> fs]
    ELSE checkout_rest(tree_checkout(c.val, tree.items, 1, path), items, i, path)

\* Lines 330-334: w is the result of File::create(dest) and write_all.
checkout_blob(fs, w, items, i, path) ==
    IF w.tag # "Ok" THEN [ret |-> w, fs |-> fs]
    ELSE tree_checkout(w.val, items, i + 1, path)

\* Lines 317-338: one leaf, whose object read_object returned.
checkout_leaf(fs, object, dest, items, i, path) ==
    IF object.tag # "Ok" THEN [ret |-> object, fs |-> fs]
    ELSE IF object.val.kind = "tree"
    THEN checkout_subtree(fs, create_dir_all(fs, dest), object.val, items, i, path)
    ELSE IF object.val.kind = "blob"
    THEN checkout_blob(fs, FileCreateWrite(fs, dest, serialize(object.val).val.data),
                       items, i, path)
    ELSE [ret |-> Panic("explicit panic"), fs |-> fs]

tree_checkout(fs, items, i, path) ==
    IF i > Len(items) THEN [ret |-> Ok(<<>>), fs |-> fs]
    ELSE checkout_leaf(fs, read_object(fs, items[i].sha), PathJoin(path, items[i].path),
                       items, i, path)

\* main.rs lines 214-230: the destination must be absent or an empty directory.
prepare_path(fs, path) ==
    IF Exists(fs, path)
    THEN IF ~IsDir(fs, path) THEN Err("InvalidPathError")
         ELSE IF ~IsEmptyDir(fs, path) THEN Err("InvalidPathError")
         ELSE Ok(fs)
    ELSE create_dir_all(fs, path)

\* main.rs line 232: canon is the canonical destination.
checkout_canon(fs, canon, tree) ==
    IF canon.tag # "Ok" THEN [ret |-> canon, fs |-> fs]
    ELSE tree_checkout(fs, tree.items, 1, canon.val)

\* main.rs lines 214-232: prepared is the filesystem with the destination.
checkout_prepared(fs, prepared, tree, p) ==
    IF prepared.tag # "Ok" THEN [ret |-> prepared, fs |-> fs]
    ELSE checkout_canon(prepared.val, canonicalize(prepared.val, p), tree)

\* main.rs lines 209-232: the tree, or the panic "Not a tree object!".
checkout_tree(fs, tree_candidate, p) ==
    IF tree_candidate.tag # "Ok" THEN [ret |-> tree_candidate, fs |-> fs]
    ELSE IF tree_candidate.val.kind # "tree"
         THEN [ret |-> Panic("Not a tree object!"), fs |-> fs]
    ELSE checkout_prepared(fs, prepare_path(fs, p), tree_candidate.val, p)

\* main.rs lines 196-207: the tree a commit names, or the object itself.
tree_candidate_of(fs, object) ==
    IF object.kind # "commit" THEN Ok(object)
    ELSE IF TREE \notin DOMAIN object.kvlm THEN Err("TreeNotFoundError")
    ELSE read_object(fs, object.kvlm[TREE][1])

\* main.rs lines 193-232: object is what read_object returned.
checkout_object(fs, object, p) ==
    IF object.tag # "Ok" THEN [ret |-> object, fs |-> fs]
    ELSE checkout_tree(fs, tree_candidate_of(fs, object.val), p)

\* main.rs checkout(commit, path): the result and the filesystem it leaves.
checkout(fs, commit, path) ==
    IF repo_find(fs).tag # "Ok" THEN [ret |-> repo_find(fs), fs |-> fs]
    ELSE checkout_object(fs, read_object(fs, object_find(commit)), Components(path))

----------------------------------------------------------------------------
(* Checkout runs in a worktree whose repository git wrote: every object    *)
(* file is the compressed frame of its object.  A tree is described by its *)
(* entries: a name with a blob's content or with the entries of a subtree. *)

MaxLeaves == 2       \* most leaves in a flat tree

BlobEntry(name, data) == [name |-> name, kind |-> "blob", data |-> data, sub |-> <<>>]
TreeEntry(name, sub) == [name |-> name, kind |-> "tree", data |-> <<>>, sub |-> sub]

LeafNames == {<<97>>, <<102>>, <<103>>}        \* "a", "f", "g"
LeafContents == {<<120>>, <<121, 122>>}        \* "x", "yz"
DIR == <<100, 105, 114>>                       \* "dir"
DEST == <<68>>                                 \* "D"
OLD == <<111, 108, 100>>                       \* "old"
MESSAGE == <<109>>                             \* "m"

\* Flat trees: up to MaxLeaves blob leaves with distinct names.
FlatTrees ==
    {es \in SeqsUpTo([name : LeafNames, kind : {"blob"}, data : LeafContents,
                      sub : {<<>>}], MaxLeaves) :
        \A i, j \in 1 .. Len(es) : i # j => es[i].name # es[j].name}

\* Nested trees: a subtree `dir` of one blob leaf, alone or next to a blob "a".
NestedTrees ==
    UNION {{<<TreeEntry(DIR, sub)>>,
            <<BlobEntry(<<97>>, <<120>>), TreeEntry(DIR, sub)>>,
            <<TreeEntry(DIR, sub), BlobEntry(<<97>>, <<120>>)>>} :
           sub \in {es \in FlatTrees : Len(es) = 1}}

\* The payload of the tree object of the entries, and the object of an entry.
RECURSIVE TreeData(_, _)
RECURSIVE EntryObject(_)
TreeData(es, i) ==
    IF i > Len(es) THEN <<>>
    ELSE EntryBytes([mode |-> IF es[i].kind = "blob" THEN MODE_FILE ELSE MODE_DIR,
                     path |-> es[i].name,
                     digest |-> Sha1(Frame(EntryObject(es[i]).fmt,
                                           EntryObject(es[i]).data))])
         \o TreeData(es, i + 1)

EntryObject(e) ==
    IF e.kind = "blob" THEN GitObjectData(BLOB, e.data)
    ELSE GitObjectData(TREE, TreeData(e.sub, 1))

\* Every object below the entries.
RECURSIVE ObjectsBelow(_)
ObjectsBelow(es) ==
    UNION {{EntryObject(es[i])} \cup ObjectsBelow(es[i].sub) : i \in 1 .. Len(es)}

RootObject(root) == GitObjectData(TREE, TreeData(root, 1))
IdOf(o) == Sha1Hex(Frame(o.fmt, o.data))

\* The commit whose tree is the root: "tree <id>\n\nm".
CommitObject(root) ==
    GitObjectData(COMMIT, TREE \o <<SP>> \o IdOf(RootObject(root)) \o <<NL, NL>> \o MESSAGE)

StoredObjects(root) == {RootObject(root), CommitObject(root)} \cup ObjectsBelow(root)

\* .git/config as repo_default_config writes it, and one of another version.
DefaultConfig ==
    <<91>> \o CORE \o <<93, NL>> \o VERSION_KEY \o <<61>> \o ZERO \o <<NL>>
    \o <<102, 105, 108, 101, 109, 111, 100, 101, 61, 102, 97, 108, 115, 101, NL>>
    \o <<98, 97, 114, 101, 61, 102, 97, 108, 115, 101, NL>>
OtherConfig == <<91>> \o CORE \o <<93, NL>> \o VERSION_KEY \o <<61, 49, NL>>
Configs == {DefaultConfig, OtherConfig, <<>>}   \* <<>>: no config file

\* The worktree before checkout: the repository with the objects of the root,
\* and the destination absent, an empty directory, a directory that holds a
\* file, or a file.
DestStates == {"absent", "empty", "nonempty", "file"}

Worktree(root, config, dest) ==
    LET objs == StoredObjects(root)
        opaths == {repo_path(ObjectSegments(IdOf(o))) : o \in objs}
        cpaths == IF config = <<>> THEN {} ELSE {repo_path(<<CONFIG>>)}
        dfiles == IF dest = "nonempty" THEN {<<DEST, OLD>>}
                  ELSE IF dest = "file" THEN {<<DEST>>} ELSE {}
    IN Fs([p \in opaths \cup cpaths \cup dfiles |->
              IF p \in opaths
              THEN LET o == CHOOSE o \in objs : repo_path(ObjectSegments(IdOf(o))) = p
                   IN GitObjectFile(o.fmt, o.data)
              ELSE IF p \in cpaths THEN config
              ELSE OLD],
          RepoDirs \cup UNION {Prefixes(Parent(p)) : p \in opaths}
          \cup (IF dest \in {"empty", "nonempty"} THEN {<<DEST>>} ELSE {}))

\* The identifiers checkout is asked for: the root tree, the commit, the blob
\* "x" (a blob when the store holds it) and an identifier of one character.
CheckoutIds(root) ==
    {IdOf(RootObject(root)), IdOf(CommitObject(root)),
     IdOf(GitObjectData(BLOB, <<120>>)), <<97>>}

CheckoutInit ==
    /\ ret = NoResult
    /\ hist = NoHist
    /\ \E root \in FlatTrees \cup NestedTrees, config \in Configs, dest \in DestStates :
          /\ op = [name |-> "init", root |-> root, config |-> config, dest |-> dest,
                   commit |-> <<>>]
          /\ files = Worktree(root, config, dest).files
          /\ dirs = Worktree(root, config, dest).dirs

\* wyag checkout <commit> D
Checkout(commit, path) ==
    LET r == checkout(Fs(files, dirs), commit, path)
    IN /\ op' = [op EXCEPT !.name = "checkout", !.commit = commit]
       /\ ret' \in BuildOutcomes(r.ret)
       /\ files' = r.fs.files
       /\ dirs' = r.fs.dirs
       /\ UNCHANGED hist

CheckoutNext ==
    /\ op.name = "init"
    /\ \E commit \in CheckoutIds(op.root) : Checkout(commit, DEST)

SpecCheckout == CheckoutInit /\ [][CheckoutNext]_vars

\* No two objects of a worktree share an object file.
ObjectFilesDistinct ==
    op.name = "init" =>
        \A o1, o2 \in StoredObjects(op.root) : IdOf(o1) = IdOf(o2) => o1 = o2

----------------------------------------------------------------------------
(* Claims about checkout.                                                  *)

\* Checkout was asked for the root tree or its commit, in a repository that
\* opens, with the destination absent or an empty directory.
Materializes ==
    /\ op.name = "checkout"
    /\ op.config = DefaultConfig
    /\ op.dest \in {"absent", "empty"}
    /\ op.commit \in {IdOf(RootObject(op.root)), IdOf(CommitObject(op.root))}

\* C7: after materializing a tree with a subtree leaf `dir` that holds a blob
\* leaf f into D, D/dir is a directory, D/dir/f holds the blob's bytes, and
\* D/f is a file only when the root itself has a blob leaf f.
C7_NestedCheckout ==
    (Materializes /\ op.root \in NestedTrees) =>
        /\ ret.tag = "Ok"
        /\ \A i \in 1 .. Len(op.root) :
              op.root[i].kind = "tree" =>
                 /\ <<DEST, op.root[i].name>> \in dirs
                 /\ \A j \in 1 .. Len(op.root[i].sub) :
                       LET f == op.root[i].sub[j]
                       IN /\ <<DEST, op.root[i].name, f.name>> \in DOMAIN files
                          /\ files[<<DEST, op.root[i].name, f.name>>] = f.data
                          /\ <<DEST, f.name>> \in DOMAIN files =>
                                \E k \in 1 .. Len(op.root) :
                                    /\ op.root[k].kind = "blob"
                                    /\ op.root[k].name = f.name
                                    /\ files[<<DEST, f.name>>] = op.root[k].data

\* C8: after materializing a tree of blob leaves into D (absent or empty
\* before), checkout has succeeded, the files of the worktree are those it
\* had plus one file D/<name> per leaf that holds the leaf's blob, and the
\* only new directory is D.
C8_FlatCheckout ==
    (Materializes /\ op.root \in FlatTrees) =>
        LET before == Worktree(op.root, op.config, op.dest)
            leaves == {<<DEST, op.root[i].name>> : i \in 1 .. Len(op.root)}
        IN /\ ret.tag = "Ok"
           /\ DOMAIN files = DOMAIN before.files \cup leaves
           /\ Cardinality(leaves) = Len(op.root)
           /\ \A p \in DOMAIN before.files : files[p] = before.files[p]
           /\ \A i \in 1 .. Len(op.root) :
                 files[<<DEST, op.root[i].name>>] = op.root[i].data
           /\ dirs = before.dirs \cup {<<DEST>>}

\* A tree of two blob leaves was materialized through its commit into a
\* destination that did not exist: D holds the two files.
C8_Witness ==
    /\ Materializes /\ op.root \in FlatTrees /\ Len(op.root) = 2
    /\ op.dest = "absent" /\ op.commit = IdOf(CommitObject(op.root))
    /\ ret.tag = "Ok"
    /\ <<DEST, op.root[1].name>> \in DOMAIN files
    /\ <<DEST, op.root[2].name>> \in DOMAIN files

----------------------------------------------------------------------------
(* hash-object: main.rs hash_file and object_hash.                         *)

\* format!("{:?}", sha) of the Ok(String) that object_hash returns: Ok("<id>")
DebugFmt(sha) == <<79, 107, 40, 34>> \o sha \o <<34, 41>>

\* Lines 131-134: w is what write_object returned and left; the identifier is
\* written to stdout.
hash_written(w) ==
    IF w.ret.tag # "Ok" THEN [ret |-> w.ret, fs |-> w.fs, out |-> <<>>]
    ELSE [ret |-> Ok(<<>>), fs |-> w.fs, out |-> DebugFmt(w.ret.val)]

\* Lines 145-146: obj is what GitObject::new returned; the flag given to
\* write_object is None.
hash_object(fs, obj) ==
    IF obj.tag # "Ok" THEN [ret |-> obj, fs |-> fs, out |-> <<>>]
    ELSE hash_written(write_object(fs, obj.val, "None"))

\* Lines 130-146: repo is the Option<Repository> of line 125; the file is
\* opened and read to its end.
hash_repo(fs, repo, type, p) ==
    IF repo.tag # "Ok" THEN [ret |-> repo, fs |-> fs, out |-> <<>>]
    ELSE IF p \notin DOMAIN fs.files THEN [ret |-> Err("IO"), fs |-> fs, out |-> <<>>]
    ELSE hash_object(fs, GitObject_new(repo.val, GitObjectData(type, fs.files[p])))

\* hash_file(type, write, path): the result, the filesystem it leaves and what
\* it wrote to stdout.
hash_file(fs, type, write, path) ==
    hash_repo(fs, IF write THEN Repository_new(fs) ELSE Ok("None"), type, Components(path))

----------------------------------------------------------------------------
(* hash-object runs in a worktree that holds the file to hash, with or     *)
(* without a repository.                                                   *)

MaxFileLen == 2      \* longest content of the file to hash, drawn from BlobBytes

FILE == <<102>>                                 \* "f"
NO_FILE == <<NUL, NUL, NUL>>                    \* stands for: the file is absent
FileContents == SeqsUpTo(BlobBytes, MaxFileLen) \cup {CommitPayload}
RepoStates == {"none", "default", "other", "noconfig", "stored"}

\* The worktree: the file "f" (unless absent) and the repository: none, one
\* with the default config, with another version, without a config file, or
\* the default one that already holds the blob of the content, written by git.
HashWorktree(repo, content) ==
    LET id == Sha1Hex(Frame(BLOB, content))
        cfg == IF repo \in {"default", "stored"} THEN DefaultConfig ELSE OtherConfig
        ffiles == IF content = NO_FILE THEN {} ELSE {<<FILE>>}
        cfiles == IF repo \in {"none", "noconfig"} THEN {} ELSE {repo_path(<<CONFIG>>)}
        ofiles == IF repo = "stored" THEN {repo_path(ObjectSegments(id))} ELSE {}
    IN Fs([q \in ffiles \cup cfiles \cup ofiles |->
              IF q \in ffiles THEN content
              ELSE IF q \in cfiles THEN cfg
              ELSE GitObjectFile(BLOB, content)],
          (IF repo = "none" THEN {} ELSE RepoDirs)
          \cup UNION {Prefixes(Parent(q)) : q \in ofiles})

HashInit ==
    /\ ret = NoResult
    /\ hist = NoHist
    /\ \E repo \in RepoStates, content \in FileContents \cup {NO_FILE} :
          /\ op = [name |-> "init", repo |-> repo, content |-> content,
                   type |-> <<>>, write |-> FALSE, out |-> <<>>]
          /\ files = HashWorktree(repo, content).files
          /\ dirs = HashWorktree(repo, content).dirs

\* wyag hash-object [-w] -t <type> f
HashFile(type, write, path) ==
    LET r == hash_file(Fs(files, dirs), type, write, path)
    IN /\ op' = [op EXCEPT !.name = "hash_file", !.type = type, !.write = write,
                           !.out = r.out]
       /\ ret' = r.ret
       /\ files' = r.fs.files
       /\ dirs' = r.fs.dirs
       /\ UNCHANGED hist

HashNext ==
    /\ op.name = "init"
    /\ \E type \in {BLOB, COMMIT, TREE, TAG}, write \in BOOLEAN : HashFile(type, write, FILE)

SpecHash == HashInit /\ [][HashNext]_vars

\* Whether the bytes `part` occur in `whole`.
Occurs(part, whole) ==
    \E i \in 0 .. (Len(whole) - Len(part)) : Slice(whole, i, i + Len(part)) = part

\* C13: hash-object of a text file as a blob succeeds and prints the
\* identifier of the blob; without the write flag it does so with or without
\* a repository and leaves every file and directory as it was; with the write
\* flag, in a repository that opens, the object file of the identifier
\* exists afterwards.
C13_HashObjectFlag ==
    (/\ op.name = "hash_file" /\ op.type = BLOB
     /\ op.content # NO_FILE /\ IsUtf8(op.content)) =>
        LET id == Sha1Hex(Frame(BLOB, op.content))
            before == HashWorktree(op.repo, op.content)
        IN /\ ~op.write =>
                /\ ret.tag = "Ok"
                /\ Occurs(id, op.out)
                /\ files = before.files /\ dirs = before.dirs
           /\ (op.write /\ op.repo \in {"default", "stored"}) =>
                /\ ret.tag = "Ok"
                /\ Occurs(id, op.out)
                /\ repo_path(ObjectSegments(id)) \in DOMAIN files

----------------------------------------------------------------------------
(* GitSerDe::deserialize of the three variants, and objects that are given *)
(* new payloads through it.                                                *)

\* obj.deserialize(data): the object afterwards, or the panic.  A Blob keeps
\* the GitObjectData it is given, type tag included; a Commit keeps the parsed
\* mapping; a Tree keeps the parsed leaves.
deserialize(obj, god) ==
    IF obj.kind = "blob" THEN Ok([obj EXCEPT !.data = god])
    ELSE IF obj.kind = "commit"
    THEN Commit_of(obj.repo, kvlm_parse(god.data, 0, EmptyDict))
    ELSE Tree_of(obj.repo, tree_parse(god.data))

MaxDeserialize == 2  \* most deserialize calls on one object

SerDeTags == {BLOB, COMMIT, TREE}
SerDePayloads == {<<>>, <<97>>, CommitPayload, TreePayload}

\* The type tag of a variant.
TagOf(kind) == IF kind = "blob" THEN BLOB ELSE IF kind = "commit" THEN COMMIT ELSE TREE

\* The objects GitObject::new builds: a blob, a commit and a tree.
SerDeInit ==
    /\ files = NoFiles
    /\ dirs = {}
    /\ hist = NoHist
    /\ ret = NoResult
    /\ \E repo \in {"Some", "None"},
          god \in {GitObjectData(BLOB, <<>>), GitObjectData(BLOB, <<97>>),
                   GitObjectData(COMMIT, CommitPayload),
                   GitObjectData(TREE, <<>>), GitObjectData(TREE, TreePayload)} :
          op = [name |-> "new", obj |-> GitObject_new(repo, god).val, calls |-> 0]

\* obj.deserialize(GitObjectData(fmt, data))
Deserialize(god) ==
    /\ op.name \in {"new", "deserialize", "serialize"}
    /\ op.calls < MaxDeserialize
    /\ LET r == deserialize(op.obj, god)
       IN /\ ret' = r
          /\ op' = IF r.tag = "Ok"
                   THEN [name |-> "deserialize", obj |-> r.val, calls |-> op.calls + 1]
                   ELSE [name |-> "aborted", obj |-> op.obj, calls |-> op.calls + 1]
    /\ UNCHANGED <<files, dirs, hist>>

\* obj.serialize()
Serialize ==
    /\ op.name \in {"new", "deserialize"}
    /\ op' = [op EXCEPT !.name = "serialize"]
    /\ ret' = serialize(op.obj)
    /\ UNCHANGED <<files, dirs, hist>>

SerDeNext ==
    \/ \E fmt \in SerDeTags, data \in SerDePayloads : Deserialize(GitObjectData(fmt, data))
    \/ Serialize

SpecSerDe == SerDeInit /\ [][SerDeNext]_vars

\* C14: whatever was passed to deserialize before, serialize reports the type
\* tag of the object's variant.
C14_FixedTypeTag ==
    (op.name = "serialize" /\ ret.tag = "Ok") => ret.val.fmt = TagOf(op.obj.kind)

----------------------------------------------------------------------------
(* Log: main.rs print_log, Repository::log_graphviz, git_commit.rs         *)
(* has_parent / parents.  The trace lists, in order, the object reads and  *)
(* the texts written to standard output.                                   *)

DIGRAPH == <<100, 105, 103, 114, 97, 112, 104, 32, 119, 121, 97, 103, 108, 111, 103, 123>>
CLOSE == <<125>>                                               \* "}"

ReadOf(sha) == [kind |-> "read", text |-> sha]
Stdout(text) == [kind |-> "stdout", text |-> text]

\* format!("c_{} -> c_{};", sha, p)
EdgeText(sha, p) ==
    <<99, 95>> \o sha \o <<SP, 45, 62, SP, 99, 95>> \o p \o <<59>>

\* A plausible slip: the identifier is not kept in the visited set.
SeenInsertForgets(seen, sha) == seen

\* seen.insert(sha.clone()), for a sha that is not in seen
SeenInsert(seen, sha) == seen \cup {sha}

\* Commit::has_parent, Commit::parents
has_parent(commit) == PARENT \in DOMAIN commit.kvlm

\* A plausible slip: only the first parent is followed.
ParentsFirstOnly(commit) == <<commit.kvlm[PARENT][1]>>

parents(commit) == commit.kvlm[PARENT]

\* The traversal st ended with the result r.
LogReturn(st, r) == [st EXCEPT !.ret = r]

\* stack: the identifiers whose call has not returned, outermost first.  A
\* call for an identifier of the stack that gets past the visited set would
\* repeat for ever ("Hang": the recursion has no end).
RECURSIVE log_graphviz(_, _, _, _)
RECURSIVE log_parents(_, _, _, _, _, _)

\* The `?` after the recursive call, then the next parent.
log_after(fs, sha, ps, i, stack, r) ==
    IF r.ret.tag # "Ok" THEN r ELSE log_parents(fs, sha, ps, i + 1, stack, r)

\* for p in parents { print!(..); self.log_graphviz(p, seen)?; }
log_parents(fs, sha, ps, i, stack, st) ==
    IF i > Len(ps) THEN LogReturn(st, Ok(<<>>))
    ELSE log_after(fs, sha, ps, i, stack,
                   log_graphviz(fs, ps[i], stack,
                                [st EXCEPT !.trace = Append(@, Stdout(EdgeText(sha, ps[i])))]))

\* Lines 296-308, for the commit built from the object's data.
log_commit(fs, sha, commit, stack, st) ==
    IF commit.tag # "Ok" THEN LogReturn(st, commit)
    ELSE IF ~has_parent(commit.val) THEN LogReturn(st, Ok(<<>>))
    ELSE log_parents(fs, sha, parents(commit.val), 1, stack, st)

\* Line 293: Commit::new(Some(self.clone()), object.get_data())
log_data(fs, sha, data, stack, st) ==
    IF data.tag # "Ok" THEN LogReturn(st, data)
    ELSE log_commit(fs, sha, Commit_new("Some", data.val), stack, st)

\* Line 291: the `?` after read_object
log_object(fs, sha, object, stack, st) ==
    IF object.tag # "Ok" THEN LogReturn(st, object)
    ELSE log_data(fs, sha, serialize(object.val), stack, st)

log_graphviz(fs, sha, stack, st) ==
    IF sha \in st.seen THEN LogReturn(st, Ok(<<>>))
    ELSE IF sha \in Range(stack) THEN LogReturn(st, [tag |-> "Hang", val |-> <<>>])
    ELSE log_object(fs, sha, read_object(fs, sha), Append(stack, sha),
                    [st EXCEPT !.seen = SeenInsert(@, sha),
                               !.trace = Append(@, ReadOf(sha))])

\* print!("}}") after a traversal that returned Ok
log_close(r) ==
    IF r.ret.tag = "Ok" THEN [r EXCEPT !.trace = Append(@, Stdout(CLOSE))] ELSE r

\* print_log(commit) in the worktree the process runs in
print_log(fs, commit) ==
    IF repo_find(fs).tag # "Ok"
    THEN [ret |-> repo_find(fs), seen |-> {}, trace |-> <<>>]
    ELSE log_close(log_graphviz(fs, object_find(commit), <<>>,
                                [ret |-> NoResult, seen |-> {},
                                 trace |-> <<Stdout(DIGRAPH)>>]))

----------------------------------------------------------------------------
(* Log inputs: a store of commits whose parent headers name any of the     *)
(* identifiers, stored or not (read_object does not compare an identifier  *)
(* with the digest of the file it names).                                  *)

MaxEdges == 3        \* most parent headers in one store

C01 == <<99, 48, 49>>
C02 == <<99, 48, 50>>
C03 == <<99, 48, 51>>
LogIds == {C01, C02, C03}

\* The parents of c in the list es of (child, parent) pairs, in order.
RECURSIVE ParentsIn(_, _, _)
ParentsIn(es, c, i) ==
    IF i > Len(es) THEN <<>>
    ELSE IF es[i][1] = c THEN <<es[i][2]>> \o ParentsIn(es, c, i + 1)
    ELSE ParentsIn(es, c, i + 1)

\* A store: the parent headers of each stored commit.
LogStores ==
    {[c \in S |-> ParentsIn(es, c, 1)] :
        S \in SUBSET LogIds, es \in SeqsUpTo(LogIds \X LogIds, MaxEdges)}

RECURSIVE ParentLines(_, _)
ParentLines(ps, i) ==
    IF i > Len(ps) THEN <<>>
    ELSE PARENT \o <<SP>> \o ps[i] \o <<NL>> \o ParentLines(ps, i + 1)

\* "tree t\n" ("parent <id>\n")* "\n" "m"
LogCommit(ps) ==
    GitObjectData(COMMIT, TREE \o <<SP, 116, NL>> \o ParentLines(ps, 1) \o <<NL>> \o MESSAGE)

LogWorktree(store, config) ==
    LET opaths == {repo_path(ObjectSegments(c)) : c \in DOMAIN store}
        cpaths == IF config = <<>> THEN {} ELSE {repo_path(<<CONFIG>>)}
    IN Fs([p \in opaths \cup cpaths |->
              IF p \in opaths
              THEN LET c == CHOOSE c \in DOMAIN store : repo_path(ObjectSegments(c)) = p
                   IN GitObjectFile(COMMIT, LogCommit(store[c]).data)
              ELSE config],
          RepoDirs \cup UNION {Prefixes(Parent(p)) : p \in opaths})

LogInit ==
    /\ ret = NoResult
    /\ hist = NoHist
    /\ \E store \in LogStores :
          /\ op = [name |-> "init", store |-> store, commit |-> <<>>, trace |-> <<>>]
          /\ files = LogWorktree(store, DefaultConfig).files
          /\ dirs = LogWorktree(store, DefaultConfig).dirs

\* wyag log <commit>
Log(commit) ==
    LET r == print_log(Fs(files, dirs), commit)
    IN /\ op' = [op EXCEPT !.name = "log", !.commit = commit, !.trace = r.trace]
       /\ ret' \in BuildOutcomes(r.ret)
       /\ UNCHANGED <<files, dirs, hist>>

LogNext ==
    /\ op.name = "init"
    /\ \E commit \in LogIds : Log(commit)

SpecLog == LogInit /\ [][LogNext]_vars

\* The indices of the trace that hold a read, and the reads that found a
\* stored commit (the commits the traversal expanded).
ReadsAt == {i \in DOMAIN op.trace : op.trace[i].kind = "read"}
Expanded == {i \in ReadsAt : op.trace[i].text \in DOMAIN op.store}

\* The trace index i holds the edge from c to p.
IsEdge(i, c, p) == op.trace[i] = Stdout(EdgeText(c, p))

\* The indices of the edges written for the child c, and the parent of each.
EdgesFrom(c) == {i \in DOMAIN op.trace : \E p \in LogIds : IsEdge(i, c, p)}
EdgeParent(i, c) == CHOOSE p \in LogIds : IsEdge(i, c, p)

\* C17: log reads each commit at most once; for every commit it expands it
\* writes one edge (child, parent) per parent header, in header order, each
\* edge right before the traversal of that parent, and nothing for a commit
\* without parent header.
C17_LogVisitsOnce ==
    op.name = "log" =>
        /\ \A i, j \in ReadsAt : op.trace[i].text = op.trace[j].text => i = j
        /\ \A i \in Expanded :
              LET c == op.trace[i].text
                  n == Cardinality(EdgesFrom(c))
              IN /\ n <= Len(op.store[c])
                 /\ ret.tag = "Ok" => n = Len(op.store[c])
                 /\ \A e \in EdgesFrom(c) :
                       /\ e > i
                       /\ EdgeParent(e, c) =
                             op.store[c][Cardinality({d \in EdgesFrom(c) : d <= e})]
        /\ \A c, q \in LogIds : \A e \in DOMAIN op.trace :
              IsEdge(e, c, q) =>
                 /\ \E i \in Expanded : i < e /\ op.trace[i].text = c
                 /\ \/ \E i \in ReadsAt : i < e /\ op.trace[i].text = q
                    \/ e < Len(op.trace) /\ op.trace[e + 1] = ReadOf(q)
        /\ \A i \in ReadsAt :
              \/ i = 2 /\ op.trace[i].text = op.commit
              \/ \E c \in LogIds : IsEdge(i - 1, c, op.trace[i].text)

\* A merge whose second parent is also an ancestor of its first parent, and a
\* commit without parents, were traversed to the end.
C17_Witness ==
    /\ op.name = "log" /\ ret.tag = "Ok"
    /\ \E c, p, q \in DOMAIN op.store :
          /\ Cardinality({c, p, q}) = 3
          /\ op.store[c] = <<p, q>>
          /\ op.store[p] = <<q>>
          /\ op.store[q] = <<>>
          /\ op.commit = c
          /\ Cardinality(EdgesFrom(c)) = 2
          /\ Cardinality(Expanded) = 3

\* C18: log ends on every store, after expanding at most as many commits as
\* the store holds, also when the parent headers form a cycle.
C18_LogTerminates ==
    op.name = "log" =>
        /\ ret.tag \in {"Ok", "Err", "Panic"}
        /\ Cardinality(Expanded) <= Cardinality(DOMAIN op.store)

\* A traversal met a cycle: an edge back to the start commit was written.
C18_Witness ==
    /\ op.name = "log" /\ ret.tag = "Ok"
    /\ \E c \in LogIds \ {op.commit} : \E e \in DOMAIN op.trace : IsEdge(e, c, op.commit)

=============================================================================
